---- MODULE Spec2Model ----
(***************************************************************************)
(* Announcements router of the High School Management System API          *)
(* (src/backend/routers/announcements.py): the five handlers, the         *)
(* announcements collection they read and write, and the requests that    *)
(* are in flight.                                                          *)
(*                                                                         *)
(* Python values.  A str is a sequence of one-character strings           *)
(* (<<>> is ""), compared as Python compares strings: lexicographically   *)
(* by code point.  None is the one-element sequence <<"None">>, which is  *)
(* no str because "None" is not a character.  A dict is a function from   *)
(* its keys.  An ObjectId is a natural number; its str() form is its      *)
(* IdLen-digit lowercase hexadecimal.                                      *)
(***************************************************************************)
EXTENDS Integers, Sequences, FiniteSets, TLC

VARIABLES
    announcements_collection,  \* the collection: ObjectId -> document
    nextOid,                   \* the next ObjectId insert_one assigns
    pc,                        \* per worker: "ready", or "find_one" inside update_announcement
    frame,                     \* per worker: the locals of its update_announcement call
    last,                      \* the latest handler step: its request and its outcome
    writes                     \* history, per document: its latest update_one while in flight

vars == <<announcements_collection, nextOid, pc, frame, last, writes>>

None == <<"None">>

\* ---------------------------------------------------------------- bounds
MaxOid == 2        \* ObjectIds handed out under Spec and SpecActive
NumProcs == 2      \* workers serving requests at the same time under SpecConc
IdLen == 2         \* hexadecimal digits of an ObjectId's string form

Procs == 1..NumProcs

\* ------------------------------------------------------- str and ObjectId
HexDigits == <<"0","1","2","3","4","5","6","7","8","9","a","b","c","d","e","f">>
UpperHex == <<"A","B","C","D","E","F">>

Ord(c) ==
    IF \E i \in 1..10 : HexDigits[i] = c
      THEN 47 + (CHOOSE i \in 1..10 : HexDigits[i] = c)
    ELSE IF \E i \in 1..6 : UpperHex[i] = c
      THEN 64 + (CHOOSE i \in 1..6 : UpperHex[i] = c)
    ELSE IF \E i \in 11..16 : HexDigits[i] = c
      THEN 86 + (CHOOSE i \in 11..16 : HexDigits[i] = c)
    ELSE 122

RECURSIVE StrLess(_, _)
StrLess(a, b) ==
    IF b = <<>> THEN FALSE
    ELSE IF a = <<>> THEN TRUE
    ELSE IF Ord(Head(a)) < Ord(Head(b)) THEN TRUE
    ELSE IF Ord(Head(a)) > Ord(Head(b)) THEN FALSE
    ELSE StrLess(Tail(a), Tail(b))

Truthy(v) == v # None /\ v # <<>>

IsHex(c) == (\E i \in 1..16 : HexDigits[i] = c) \/ (\E i \in 1..6 : UpperHex[i] = c)

HexVal(c) ==
    IF \E i \in 1..16 : HexDigits[i] = c
      THEN (CHOOSE i \in 1..16 : HexDigits[i] = c) - 1
      ELSE (CHOOSE i \in 1..6 : UpperHex[i] = c) + 9

ObjectIdValid(s) == Len(s) = IdLen /\ \A i \in 1..Len(s) : IsHex(s[i])

RECURSIVE HexParse(_)
HexParse(s) ==
    IF s = <<>> THEN 0
    ELSE 16 * HexParse(SubSeq(s, 1, Len(s) - 1)) + HexVal(s[Len(s)])

ObjectId(s) == HexParse(s)

RECURSIVE HexFormat(_, _)
HexFormat(n, w) ==
    IF w = 0 THEN <<>>
    ELSE Append(HexFormat(n \div 16, w - 1), HexDigits[(n % 16) + 1])

Str(oid) == HexFormat(oid, IdLen)

\* ------------------------------------------------------- the registry
teachers_collection == {<<"t","1">>}

\* ------------------------------------------------------------- documents
EmptyDict == [k \in {} |-> None]

Get(d, k) == IF k \in DOMAIN d THEN d[k] ELSE None

\* d with d[k] = v
Put(d, k, v) == [x \in DOMAIN d \cup {k} |-> IF x = k THEN v ELSE d[x]]

\* find({}): the documents in the store's natural (insertion) order, each with
\* its key under "_id"
RECURSIVE Find(_, _, _)
Find(coll, i, n) ==
    IF i >= n THEN <<>>
    ELSE (IF i \in DOMAIN coll THEN <<Put(coll[i], "_id", i)>> ELSE <<>>)
         \o Find(coll, i + 1, n)

FindOne(coll, oid) == IF oid \in DOMAIN coll THEN Put(coll[oid], "_id", oid) ELSE None

InsertOne(coll, oid, doc) ==
    [x \in DOMAIN coll \cup {oid} |-> IF x = oid THEN doc ELSE coll[x]]

\* update_one with upsert=True
UpdateOneUpsert(coll, oid, update_data) ==
    [x \in DOMAIN coll \cup {oid} |->
        IF x # oid THEN coll[x]
        ELSE IF oid \notin DOMAIN coll THEN update_data
        ELSE [k \in DOMAIN coll[oid] \cup DOMAIN update_data |->
                IF k \in DOMAIN update_data THEN update_data[k] ELSE coll[oid][k]]]

\* replace_one in place of a "$set"
UpdateOneReplace(coll, oid, update_data) ==
    IF oid \notin DOMAIN coll THEN coll
    ELSE [coll EXCEPT ![oid] = update_data]

\* "$setOnInsert"-like: only the keys the document lacks are written
UpdateOneSetMissing(coll, oid, update_data) ==
    IF oid \notin DOMAIN coll THEN coll
    ELSE [coll EXCEPT ![oid] =
            [k \in DOMAIN coll[oid] \cup DOMAIN update_data |->
                IF k \in DOMAIN coll[oid] THEN coll[oid][k] ELSE update_data[k]]]

\* update_one({"_id": oid}, {"$set": update_data}): the collection afterwards
\* (no upsert: without a match nothing is written)
UpdateOne(coll, oid, update_data) ==
    IF oid \notin DOMAIN coll THEN coll
    ELSE [coll EXCEPT ![oid] =
            [k \in DOMAIN coll[oid] \cup DOMAIN update_data |->
                IF k \in DOMAIN update_data THEN update_data[k] ELSE coll[oid][k]]]

\* result.matched_count of that update_one
MatchedCount(coll, oid) == IF oid \in DOMAIN coll THEN 1 ELSE 0

\* a delete_one whose filter matches nothing
DeleteOneNothing(coll, oid) == coll

\* delete_one({"_id": oid}): the collection afterwards
DeleteOne(coll, oid) == [x \in DOMAIN coll \ {oid} |-> coll[x]]

\* result.deleted_count of that delete_one
DeletedCount(coll, oid) == IF oid \in DOMAIN coll THEN 1 ELSE 0

\* announcement["_id"] = str(announcement["_id"])
Serialize(doc) == Put(doc, "_id", Str(doc["_id"]))

\* --------------------------------------------------------------- handlers
\* the registry lookup left out
AuthorizedAnyone(username) == TRUE

Authorized(username) == username \in teachers_collection

IsExpired(announcement, now) ==
    Truthy(Get(announcement, "expiration_date"))
    /\ StrLess(announcement["expiration_date"], now)

NotStarted(announcement, now) ==
    Truthy(Get(announcement, "start_date"))
    /\ StrLess(now, announcement["start_date"])

RECURSIVE ActiveLoop(_, _)
ActiveLoop(announcements, now) ==
    IF announcements = <<>> THEN <<>>
    ELSE LET announcement == Head(announcements)
             rest == ActiveLoop(Tail(announcements), now)
         IN  IF IsExpired(announcement, now) THEN rest
             ELSE IF NotStarted(announcement, now) THEN rest
             ELSE <<Serialize(announcement)>> \o rest

RECURSIVE AllLoop(_)
AllLoop(announcements) ==
    IF announcements = <<>> THEN <<>>
    ELSE <<Serialize(Head(announcements))>> \o AllLoop(Tail(announcements))

\* the optional start_date left out of the new document
NewAnnouncementNoStart(message, start_date, expiration_date, username, now) ==
    [message |-> message, start_date |-> None,
     expiration_date |-> expiration_date, created_by |-> username,
     created_at |-> now]

NewAnnouncement(message, start_date, expiration_date, username, now) ==
    [message |-> message, start_date |-> start_date,
     expiration_date |-> expiration_date, created_by |-> username,
     created_at |-> now]

\* the "is not None" tests left out
BuildUpdateDataAll(message, start_date, expiration_date) ==
    [message |-> message, start_date |-> start_date,
     expiration_date |-> expiration_date]

BuildUpdateData(message, start_date, expiration_date) ==
    LET d1 == IF message # None THEN Put(EmptyDict, "message", message) ELSE EmptyDict
        d2 == IF start_date # None THEN Put(d1, "start_date", start_date) ELSE d1
    IN  IF expiration_date # None THEN Put(d2, "expiration_date", expiration_date) ELSE d2

\* the record of one handler step: the handler (for update_announcement, step
\* says which of its two store calls the step ran), the request, and how it
\* ended: kind "return", "HTTPException", "uncaught" for an exception that no
\* handler catches, "running" for an update between update_one and find_one
Event(op, step, username, announcement_id, message, start_date, expiration_date, now, kind, status_code, detail, body) ==
    [op |-> op, step |-> step, username |-> username,
     announcement_id |-> announcement_id, message |-> message,
     start_date |-> start_date, expiration_date |-> expiration_date,
     now |-> now, kind |-> kind, status_code |-> status_code,
     detail |-> detail, body |-> body]

\* frame[p]: the locals of p's update_announcement call
NoFrame == [announcement_id |-> None, username |-> None, update_data |-> EmptyDict]

InFlightOn(p, oid) ==
    /\ pc[p] = "find_one"
    /\ ObjectId(frame[p].announcement_id) = oid

\* writes[oid], kept while the call that wrote last is between its update_one
\* and its find_one: writer is that worker and beforeWriter the document as its
\* update_one found it; prev is the worker whose update_one came just before
\* and who is still before its find_one (0: none), beforePrev the document as
\* that one found it
NoWrite == [writer |-> 0, prev |-> 0, beforePrev |-> None, beforeWriter |-> None]

\* the history carried over to the collection coll
Carry(coll) == [x \in DOMAIN coll |-> IF x \in DOMAIN writes THEN writes[x] ELSE NoWrite]

Init ==
    /\ announcements_collection = EmptyDict
    /\ nextOid = 1
    /\ pc = [p \in Procs |-> "ready"]
    /\ frame = [p \in Procs |-> NoFrame]
    /\ last = Event("init", None, None, None, None, None, None, None, "return", 200, None, None)
    /\ writes = EmptyDict

get_active_announcements(p, in) ==
    /\ pc[p] = "ready"
    /\ \E now \in in.nows :
        LET announcements == Find(announcements_collection, 1, nextOid)
        IN  last' = Event("get_active", None, None, None, None, None, None, now,
                          "return", 200, None, ActiveLoop(announcements, now))
    /\ UNCHANGED <<announcements_collection, nextOid, pc, frame, writes>>

get_all_announcements(p, in) ==
    /\ pc[p] = "ready"
    /\ LET announcements == Find(announcements_collection, 1, nextOid)
       IN  last' = Event("get_all", None, None, None, None, None, None, None,
                         "return", 200, None, AllLoop(announcements))
    /\ UNCHANGED <<announcements_collection, nextOid, pc, frame, writes>>

create_announcement(p, in) ==
    /\ pc[p] = "ready"
    /\ \E username \in in.usernames, message \in in.messages,
          start_date \in in.starts, expiration_date \in in.exps, now \in in.nows :
        IF ~Authorized(username)
        THEN /\ last' = Event("create", None, username, None, message, start_date,
                              expiration_date, now, "HTTPException", 401,
                              "Unauthorized", None)
             /\ UNCHANGED <<announcements_collection, nextOid>>
        ELSE /\ nextOid <= in.maxOid
             /\ LET new_announcement ==
                        NewAnnouncement(message, start_date, expiration_date, username, now)
                IN  /\ announcements_collection' =
                           InsertOne(announcements_collection, nextOid, new_announcement)
                    /\ last' = Event("create", None, username, None, message, start_date,
                                     expiration_date, now, "return", 200, None,
                                     Put(new_announcement, "_id", Str(nextOid)))
             /\ nextOid' = nextOid + 1
    /\ writes' = Carry(announcements_collection')
    /\ UNCHANGED <<pc, frame>>

\* update_announcement up to and including update_one
update_announcement(p, in) ==
    /\ pc[p] = "ready"
    /\ \E announcement_id \in in.ids, username \in in.usernames,
          message \in in.pmessages, start_date \in in.pstarts,
          expiration_date \in in.pexps :
        LET update_data == BuildUpdateData(message, start_date, expiration_date)
            Fail(kind, status_code, detail) ==
                /\ last' = Event("update", "update_one", username, announcement_id, message,
                                 start_date, expiration_date, None, kind,
                                 status_code, detail, None)
                /\ UNCHANGED <<announcements_collection, pc, frame, writes>>
        IN  IF ~Authorized(username) THEN Fail("HTTPException", 401, "Unauthorized")
            ELSE IF update_data = EmptyDict
              THEN Fail("HTTPException", 400, "No fields to update")
            ELSE IF ~ObjectIdValid(announcement_id)
              THEN Fail("uncaught", 0, "InvalidId")
            ELSE LET oid == ObjectId(announcement_id)
                     matched_count == MatchedCount(announcements_collection, oid)
                 IN  /\ announcements_collection' =
                            UpdateOne(announcements_collection, oid, update_data)
                     /\ IF matched_count = 0
                        THEN /\ last' = Event("update", "update_one", username,
                                              announcement_id, message, start_date,
                                              expiration_date, None, "HTTPException",
                                              404, "Announcement not found", None)
                             /\ writes' = Carry(announcements_collection')
                             /\ UNCHANGED <<pc, frame>>
                        ELSE /\ pc' = [pc EXCEPT ![p] = "find_one"]
                             /\ frame' = [frame EXCEPT ![p] =
                                    [announcement_id |-> announcement_id,
                                     username |-> username,
                                     update_data |-> update_data]]
                             /\ last' = Event("update", "update_one", username,
                                              announcement_id, message, start_date,
                                              expiration_date, None, "running", 0,
                                              None, None)
                             /\ writes' = [Carry(announcements_collection') EXCEPT ![oid] =
                                    [writer |-> p,
                                     prev |-> writes[oid].writer,
                                     beforePrev |-> writes[oid].beforeWriter,
                                     beforeWriter |-> announcements_collection[oid]]]
    /\ UNCHANGED nextOid

\* update_announcement from find_one to its return
update_find_one(p) ==
    /\ pc[p] = "find_one"
    /\ LET updated == FindOne(announcements_collection, ObjectId(frame[p].announcement_id))
           Done(kind, status_code, detail, body) ==
               last' = Event("update", "find_one", frame[p].username,
                             frame[p].announcement_id,
                             Get(frame[p].update_data, "message"),
                             Get(frame[p].update_data, "start_date"),
                             Get(frame[p].update_data, "expiration_date"),
                             None, kind, status_code, detail, body)
       IN  IF updated = None
           THEN Done("uncaught", 0, "TypeError", None)
           ELSE Done("return", 200, None, Serialize(updated))
    /\ pc' = [pc EXCEPT ![p] = "ready"]
    /\ frame' = [frame EXCEPT ![p] = NoFrame]
    /\ writes' = [x \in DOMAIN writes |->
            IF writes[x].writer = p THEN NoWrite
            ELSE IF writes[x].prev = p
            THEN [writes[x] EXCEPT !.prev = 0, !.beforePrev = None]
            ELSE writes[x]]
    /\ UNCHANGED <<announcements_collection, nextOid>>

delete_announcement(p, in) ==
    /\ pc[p] = "ready"
    /\ \E announcement_id \in in.ids, username \in in.usernames :
        LET Done(kind, status_code, detail, body) ==
                last' = Event("delete", None, username, announcement_id, None, None,
                              None, None, kind, status_code, detail, body)
        IN  IF ~Authorized(username)
            THEN /\ Done("HTTPException", 401, "Unauthorized", None)
                 /\ UNCHANGED announcements_collection
            ELSE IF ~ObjectIdValid(announcement_id)
            THEN /\ Done("uncaught", 0, "InvalidId", None)
                 /\ UNCHANGED announcements_collection
            ELSE /\ announcements_collection' =
                        DeleteOne(announcements_collection, ObjectId(announcement_id))
                 /\ IF DeletedCount(announcements_collection, ObjectId(announcement_id)) = 0
                    THEN Done("HTTPException", 404, "Announcement not found", None)
                    ELSE Done("return", 200, None,
                              [message |-> "Announcement deleted successfully"])
    /\ writes' = Carry(announcements_collection')
    /\ UNCHANGED <<nextOid, pc, frame>>

\* ------------------------------------------------------- input domains
\* identifiers a caller may send: the string form of every ObjectId the store
\* can hand out, and one of the right length that is not hexadecimal
MalformedIds == {[i \in 1..IdLen |-> "z"]}
ValidIds(n) == {Str(oid) : oid \in 1..n}

\* Spec: every handler, one request at a time
SeqIn ==
    [usernames |-> teachers_collection \cup {<<"x">>},
     ids       |-> ValidIds(MaxOid) \cup MalformedIds,
     messages  |-> {<<"a">>},
     starts    |-> {None, <<"1">>},
     exps      |-> {<<"2">>},
     nows      |-> {<<"1">>},
     pmessages |-> {None, <<"b">>},
     pstarts   |-> {None, <<"1">>},
     pexps     |-> {None, <<"1">>},
     maxOid    |-> MaxOid]

Next ==
    \/ get_active_announcements(1, SeqIn)
    \/ get_all_announcements(1, SeqIn)
    \/ create_announcement(1, SeqIn)
    \/ update_announcement(1, SeqIn)
    \/ update_find_one(1)
    \/ delete_announcement(1, SeqIn)

Spec == Init /\ [][Next]_vars

\* SpecConc: update and delete, NumProcs requests at a time, on a collection
\* that one create_announcement has filled
ConcIn ==
    [usernames |-> teachers_collection,
     ids       |-> ValidIds(1),
     messages  |-> {<<"a">>},
     starts    |-> {None, <<"1">>},
     exps      |-> {<<"2">>},
     nows      |-> {<<"1">>},
     pmessages |-> {None, <<"b">>, <<"c">>},
     pstarts   |-> {None},
     pexps     |-> {None, <<"1">>}]

InitConc ==
    /\ \E username \in ConcIn.usernames, message \in ConcIn.messages,
          start_date \in ConcIn.starts, expiration_date \in ConcIn.exps,
          now \in ConcIn.nows :
        announcements_collection =
            InsertOne(EmptyDict, 1,
                      NewAnnouncement(message, start_date, expiration_date, username, now))
    /\ nextOid = 2
    /\ pc = [p \in Procs |-> "ready"]
    /\ frame = [p \in Procs |-> NoFrame]
    /\ last = Event("init", None, None, None, None, None, None, None, "return", 200, None, None)
    /\ writes = [x \in {1} |-> NoWrite]

NextConc ==
    \E p \in Procs :
        \/ update_announcement(p, ConcIn)
        \/ update_find_one(p)
        \/ delete_announcement(p, ConcIn)

SpecConc == InitConc /\ [][NextConc]_vars

\* SpecActive: the active-window filter over the stores that create builds,
\* with empty, one-character and two-character date strings
ActiveIn ==
    [usernames |-> teachers_collection,
     ids       |-> ValidIds(MaxOid),
     messages  |-> {<<"a">>},
     starts    |-> {None, <<>>, <<"1">>, <<"1","0">>, <<"2">>},
     exps      |-> {<<>>, <<"1">>, <<"1","0">>, <<"2">>},
     nows      |-> {<<"1">>, <<"1","0">>, <<"2">>},
     pmessages |-> {None},
     pstarts   |-> {None},
     pexps     |-> {None},
     maxOid    |-> MaxOid]

NextActive ==
    \/ create_announcement(1, ActiveIn)
    \/ get_active_announcements(1, ActiveIn)

SpecActive == Init /\ [][NextActive]_vars

\* ================================================================= claims
Fields == {"message", "start_date", "expiration_date"}

\* the records of coll whose identifier, in its string form, is id
Matching(coll, id) == {oid \in DOMAIN coll : Str(oid) = id}

Registered(username) == username \in teachers_collection

EmptyPatch(e) == e.message = None /\ e.start_date = None /\ e.expiration_date = None

StoreUnchanged == announcements_collection' = announcements_collection

\* ---- C2
\* C2: create, update or delete by an author who is not in the registry ends
\* in Unauthorized (401) and leaves the collection exactly as it was, whatever
\* the other arguments are.
C2_UnauthorizedLeavesStore ==
    [][ (last'.op \in {"create", "update", "delete"} /\ ~Registered(last'.username))
        => /\ last'.kind = "HTTPException"
           /\ last'.status_code = 401
           /\ StoreUnchanged ]_vars

\* an unregistered author's update with an empty patch and a malformed
\* identifier, on a collection that holds a record
C2_Witness ==
    /\ last.op = "update"
    /\ last.status_code = 401
    /\ EmptyPatch(last)
    /\ last.announcement_id \in MalformedIds
    /\ announcements_collection # EmptyDict

\* ---- C3
\* C3: update by a registered author with none of message, start_date,
\* expiration_date supplied ends in BadRequest (400) and leaves every record
\* unchanged, whether or not the identifier matches a record.
C3_EmptyPatchBadRequest ==
    [][ (last'.op = "update" /\ Registered(last'.username) /\ EmptyPatch(last'))
        => /\ last'.kind = "HTTPException"
           /\ last'.status_code = 400
           /\ StoreUnchanged ]_vars

\* the empty update named an existing record
C3_Witness ==
    /\ last.op = "update"
    /\ last.status_code = 400
    /\ Matching(announcements_collection, last.announcement_id) # {}

\* ---- C4
\* C4: update by a registered author with a non-empty patch and a well-formed
\* identifier that matches no record ends in NotFound (404), and the
\* collection is unchanged: nothing is created, nothing is modified.
C4_UnknownIdNotFound ==
    [][ (/\ last'.op = "update"
         /\ last'.step = "update_one"
         /\ Registered(last'.username)
         /\ ~EmptyPatch(last')
         /\ ObjectIdValid(last'.announcement_id)
         /\ Matching(announcements_collection, last'.announcement_id) = {})
        => /\ last'.kind = "HTTPException"
           /\ last'.status_code = 404
           /\ StoreUnchanged ]_vars

\* NotFound while the collection holds another record
C4_Witness ==
    /\ last.op = "update"
    /\ last.status_code = 404
    /\ announcements_collection # EmptyDict

\* ---- C5
\* C5: a delete by a registered author with a well-formed identifier succeeds
\* exactly when the record is present, and then removes exactly that record;
\* otherwise it ends in NotFound and changes nothing.  A delete that directly
\* follows a successful delete of the same identifier ends in NotFound.  An
\* identifier once deleted never returns, and the two listings show only
\* records that are in the collection.
C5_DeleteOnce ==
    /\ [][ (/\ last'.op = "delete"
            /\ Registered(last'.username)
            /\ ObjectIdValid(last'.announcement_id))
           => LET hit == Matching(announcements_collection, last'.announcement_id)
              IN  IF hit # {}
                  THEN /\ last'.kind = "return"
                       /\ DOMAIN announcements_collection' =
                              DOMAIN announcements_collection \ hit
                       /\ \A x \in DOMAIN announcements_collection' :
                              announcements_collection'[x] = announcements_collection[x]
                  ELSE /\ last'.kind = "HTTPException"
                       /\ last'.status_code = 404
                       /\ StoreUnchanged ]_vars
    /\ [][ (/\ last.op = "delete"
            /\ last.kind = "return"
            /\ last'.op = "delete"
            /\ Registered(last'.username)
            /\ last'.announcement_id = last.announcement_id)
           => /\ last'.kind = "HTTPException"
              /\ last'.status_code = 404
              /\ StoreUnchanged ]_vars
    /\ [][ \A oid \in 1..(nextOid - 1) :
             oid \notin DOMAIN announcements_collection
                => oid \notin DOMAIN announcements_collection' ]_vars
    /\ [](last.op \in {"get_all", "get_active"}
             => \A i \in 1..Len(last.body) :
                    Matching(announcements_collection, last.body[i]["_id"]) # {})

\* the second delete: NotFound for an identifier the store once handed out,
\* with another record still there
C5_Witness ==
    /\ last.op = "delete"
    /\ last.status_code = 404
    /\ ObjectIdValid(last.announcement_id)
    /\ ObjectId(last.announcement_id) < nextOid
    /\ announcements_collection # EmptyDict

\* ---- C6
\* C6: create by a registered author adds exactly one record, under an
\* identifier that no record of the collection had, with message, start_date
\* and expiration_date as given, created_by the author and created_at the
\* time of the call; every other record is unchanged; what is returned is the
\* persisted record with its identifier in string form.
C6_CreateAddsOne ==
    [][ (last'.op = "create" /\ Registered(last'.username))
        => /\ last'.kind = "return"
           /\ \E oid \in DOMAIN announcements_collection' :
                /\ oid \notin DOMAIN announcements_collection
                /\ DOMAIN announcements_collection' =
                       DOMAIN announcements_collection \cup {oid}
                /\ \A x \in DOMAIN announcements_collection :
                       /\ announcements_collection'[x] = announcements_collection[x]
                       /\ Str(x) # Str(oid)
                /\ announcements_collection'[oid] =
                       [message |-> last'.message,
                        start_date |-> last'.start_date,
                        expiration_date |-> last'.expiration_date,
                        created_by |-> last'.username,
                        created_at |-> last'.now]
                /\ last'.body = Put(announcements_collection'[oid], "_id", Str(oid)) ]_vars

\* a create with a start_date, into a collection that already held a record
C6_Witness ==
    /\ last.op = "create"
    /\ last.kind = "return"
    /\ last.start_date # None
    /\ Cardinality(DOMAIN announcements_collection) >= 2

\* ---- C7
\* C7: an update whose write matched changes only the fields supplied: each
\* supplied field holds the supplied value, each field not supplied keeps its
\* value, created_by and created_at and the record's key stay, and no other
\* record changes.  Over every step, created_by and created_at of a record
\* that stays in the collection do not change.
C7_UpdateFrame ==
    /\ [][ (last'.op = "update" /\ last'.step = "update_one" /\ last'.kind = "running")
           => \E oid \in Matching(announcements_collection, last'.announcement_id) :
                /\ DOMAIN announcements_collection' = DOMAIN announcements_collection
                /\ DOMAIN announcements_collection'[oid] =
                       DOMAIN announcements_collection[oid]
                /\ \A k \in Fields :
                       Get(announcements_collection'[oid], k) =
                           IF last'[k] # None THEN last'[k]
                           ELSE announcements_collection[oid][k]
                /\ \A x \in DOMAIN announcements_collection \ {oid} :
                       announcements_collection'[x] = announcements_collection[x] ]_vars
    /\ [][ \A oid \in DOMAIN announcements_collection \cap DOMAIN announcements_collection' :
             /\ Get(announcements_collection'[oid], "created_by") =
                    announcements_collection[oid]["created_by"]
             /\ Get(announcements_collection'[oid], "created_at") =
                    announcements_collection[oid]["created_at"] ]_vars

\* a matched update that supplies the message only, on a record whose
\* start_date is set and whose message was another
C7_Witness ==
    /\ last.op = "update"
    /\ last.kind = "running"
    /\ last.message # None
    /\ last.start_date = None
    /\ last.expiration_date = None
    /\ \E oid \in Matching(announcements_collection, last.announcement_id) :
         /\ announcements_collection[oid]["start_date"] # None
         /\ writes[oid].beforeWriter["message"] # last.message

\* ---- C9
\* C9: update (with a non-empty patch) and delete by a registered author with
\* an identifier that cannot be parsed into the store's key form end in a
\* client error (an HTTPException with a 4xx status), not in an unhandled
\* failure.
C9_MalformedIsClientError ==
    (/\ last.op \in {"update", "delete"}
     /\ Registered(last.username)
     /\ (last.op = "update" => ~EmptyPatch(last))
     /\ ~ObjectIdValid(last.announcement_id))
    => /\ last.kind = "HTTPException"
       /\ last.status_code \in 400..499

\* ---- C1
Absent(doc, k) == k \notin DOMAIN doc \/ doc[k] = None

\* the active window as the specification states it: both ends inclusive
InWindow(doc, now) ==
    /\ Absent(doc, "expiration_date") \/ ~StrLess(doc["expiration_date"], now)
    /\ Absent(doc, "start_date") \/ ~StrLess(now, doc["start_date"])

\* C1: get_active_announcements returns a record if and only if its
\* expiration_date is absent or not before now, and its start_date is absent
\* or not after now.
C1_ActiveWindow ==
    last.op = "get_active"
    => {last.body[i]["_id"] : i \in 1..Len(last.body)}
         = {Str(oid) : oid \in {x \in DOMAIN announcements_collection :
                                   InWindow(announcements_collection[x], last.now)}}

\* ---- C8
\* C8: an update that reached find_one ends in a returned record, and in that
\* record every supplied field holds the supplied value, under every
\* interleaving with other updates and deletes; every update ends in a
\* returned record or in Unauthorized, BadRequest or NotFound.
C8_ReturnsPatchedRecord ==
    (last.op = "update" /\ last.kind # "running")
    => \/ last.kind = "HTTPException" /\ last.status_code \in {401, 400, 404}
       \/ /\ last.kind = "return"
          /\ \A k \in Fields : last[k] # None => Get(last.body, k) = last[k]

\* ---- C10
\* q's update_one followed p's on the record oid while p's update was in
\* flight, both are still in flight, and nothing has written to oid since
Overlapping(p, q, oid) ==
    /\ p # q
    /\ oid \in DOMAIN announcements_collection
    /\ writes[oid].writer = q
    /\ writes[oid].prev = p
    /\ InFlightOn(p, oid)
    /\ InFlightOn(q, oid)

\* C10: after two overlapping updates of one record, each field holds the
\* value of the later write if that supplied it, else of the earlier write if
\* that supplied it, else the value it had before both: the record is the two
\* patches applied in the order of their writes.
C10_LastWriterWins ==
    \A p \in Procs, q \in Procs, oid \in DOMAIN announcements_collection :
        Overlapping(p, q, oid)
        => LET doc == announcements_collection[oid]
               before == writes[oid].beforePrev
               first == frame[p].update_data
               second == frame[q].update_data
           IN  /\ DOMAIN doc = DOMAIN before
               /\ \A k \in DOMAIN doc :
                    doc[k] = IF k \in DOMAIN second THEN second[k]
                             ELSE IF k \in DOMAIN first THEN first[k]
                             ELSE before[k]
               /\ writes[oid].beforeWriter =
                    [k \in DOMAIN before |->
                        IF k \in DOMAIN first THEN first[k] ELSE before[k]]

\* two overlapping updates that both supply the message, with different
\* values, the earlier one alone supplying the expiration_date, on a record
\* whose start_date is set
C10_Witness ==
    \E p \in Procs, q \in Procs, oid \in DOMAIN announcements_collection :
        /\ Overlapping(p, q, oid)
        /\ "message" \in DOMAIN frame[p].update_data
        /\ "message" \in DOMAIN frame[q].update_data
        /\ frame[p].update_data["message"] # frame[q].update_data["message"]
        /\ "expiration_date" \in DOMAIN frame[p].update_data
        /\ "expiration_date" \notin DOMAIN frame[q].update_data
        /\ writes[oid].beforePrev["expiration_date"] # frame[p].update_data["expiration_date"]
        /\ writes[oid].beforePrev["start_date"] # None

====
